---------------------------- MODULE Spec2Model ----------------------------
(***************************************************************************)
(* A model of the PDF bounding-box tool of Dartans/gemini-chat: the        *)
(* coordinate transform (src/src/utils/pdfUtils.ts), the PdfProcessor      *)
(* component (src/src/components/PdfProcessor.tsx) with its box store,     *)
(* selection and drag handlers, extraction and field mapping, and the App  *)
(* that hosts it (src/src/App.tsx).                                        *)
(*                                                                         *)
(* JavaScript numbers are modelled as exact rationals <<n, d>> (d > 0,     *)
(* lowest terms); strings that the code takes apart (box texts, field      *)
(* names, ids) are sequences of one-character strings.                     *)
(***************************************************************************)
EXTENDS Integers, Sequences, FiniteSets, TLC

VARIABLES
    externalControls,   \* the externalControls prop (TRUE when hosted by App)
    file,               \* the chosen File, or NoFile
    parsedResults,      \* the Box Store: Null or [pages |-> <<[boxes |-> <<box, ...>>], ...>>]
    currentPage,        \* the cell written by setCurrentPageHandler
    scale,              \* internalScale
    pageRect,           \* getBoundingClientRect() of the rendered page: Null or [width, height]
    selectedBox,        \* the cell written by setSelectedBoxHandler
    isDragging,
    dragStart,          \* Null or [x, y]
    variableFields,     \* the effective variable-field list
    variableMappings,
    unmappedBoxIds,
    showVariables,
    error,
    isProcessing,
    extractCalls,       \* processFile calls awaiting processFileWithGemini
    mapCall,            \* the handleMapFields call awaiting mapVariablesToBoxes, or Null
    moves,              \* number of drag pointerMove events handled so far
    dragOrigin,         \* the pointerDown that started the drag, the box it hit, the moves since
    calls,              \* number of calls made to the extraction and mapping services
    edits,              \* number of edits made in the Variable Editor
    applied,            \* the last mapping result applied and the field list it left, or Null
    last,               \* the last event handled, with the inputs and the prior state it read
    roundTrip,          \* a transform round trip: its inputs and results so far
    savedState,         \* localStorage['pdf-processor-state']: Null or the saved record
    timers,             \* the setTimeout callbacks waiting to run, oldest first
    refCalls,           \* number of uses of the view controls and of the ref's methods
    printCalls          \* number of printPdf calls awaiting printFilledPdf

docVars    == <<externalControls, file, parsedResults>>
viewVars   == <<currentPage, scale, pageRect>>
selVars    == <<selectedBox, isDragging, dragStart>>
fieldVars  == <<variableFields, variableMappings, unmappedBoxIds, showVariables>>
statusVars == <<error, isProcessing>>
asyncVars  == <<extractCalls, mapCall>>
countVars  == <<moves, calls, edits>>
obsVars    == <<dragOrigin, applied>>
testVars   == <<roundTrip>>
laterVars  == <<savedState, timers, refCalls, printCalls>>
vars == <<docVars, viewVars, selVars, fieldVars, statusVars, asyncVars, countVars, obsVars,
          last, testVars, laterVars>>

\* null, for the cells that hold an object
Null == [null |-> TRUE]
\* null, for the cells that hold a string
NoFile == "no file"
NoError == "no error"

-----------------------------------------------------------------------------
(* Numbers *)

Abs(a) == IF a < 0 THEN -a ELSE a

RECURSIVE GCD(_, _)
GCD(a, b) == IF b = 0 THEN a ELSE GCD(b, a % b)

\* The rational n/d in lowest terms with a positive denominator.
Rat(n, d) ==
    LET s == IF d < 0 THEN -1 ELSE 1
        g == GCD(Abs(n), Abs(d))
    IN  <<(s * n) \div g, (s * d) \div g>>

Num(n) == <<n, 1>>
\* Arithmetic on fractions with positive denominators (every divisor in the
\* code is a scale, a page dimension or 1000); Norm brings a result to lowest terms.
Norm(a) == Rat(a[1], a[2])
RAdd(a, b) == <<a[1] * b[2] + b[1] * a[2], a[2] * b[2]>>
RMul(a, b) == <<a[1] * b[1], a[2] * b[2]>>
RDiv(a, b) == <<a[1] * b[2], a[2] * b[1]>>
RLeq(a, b) == a[1] * b[2] <= b[1] * a[2]
REq(a, b)  == a[1] * b[2] = b[1] * a[2]

\* Math.round: the integer nearest to a, halves rounded towards +Infinity.
MathRound(a) == (2 * a[1] + a[2]) \div (2 * a[2])

\* The 0..1000 normalized space.
NormMax == 1000

-----------------------------------------------------------------------------
(* Coordinate transform *)

\* A normalizeCoordinates that scales both axes by the page width.
normalizeCoordinatesByWidth(box, pageWidth, pageHeight, s) ==
    [x      |-> Norm(RMul(RMul(RDiv(box.x, Num(NormMax)), pageWidth), s)),
     y      |-> Norm(RMul(RMul(RDiv(box.y, Num(NormMax)), pageWidth), s)),
     width  |-> Norm(RMul(RMul(RDiv(box.width, Num(NormMax)), pageWidth), s)),
     height |-> Norm(RMul(RMul(RDiv(box.height, Num(NormMax)), pageWidth), s))]

normalizeCoordinates(box, pageWidth, pageHeight, s) ==
    [x      |-> Norm(RMul(RMul(RDiv(box.x, Num(NormMax)), pageWidth), s)),
     y      |-> Norm(RMul(RMul(RDiv(box.y, Num(NormMax)), pageHeight), s)),
     width  |-> Norm(RMul(RMul(RDiv(box.width, Num(NormMax)), pageWidth), s)),
     height |-> Norm(RMul(RMul(RDiv(box.height, Num(NormMax)), pageHeight), s))]

\* A denormalizeCoordinates that forgets to undo the zoom.
denormalizeCoordinatesNoScale(x, y, width, height, pageWidth, pageHeight, s) ==
    [x      |-> MathRound(RMul(Norm(RDiv(x, pageWidth)), Num(NormMax))),
     y      |-> MathRound(RMul(Norm(RDiv(y, pageHeight)), Num(NormMax))),
     width  |-> MathRound(RMul(Norm(RDiv(width, pageWidth)), Num(NormMax))),
     height |-> MathRound(RMul(Norm(RDiv(height, pageHeight)), Num(NormMax)))]

denormalizeCoordinates(x, y, width, height, pageWidth, pageHeight, s) ==
    [x      |-> MathRound(RMul(Norm(RDiv(RDiv(x, s), pageWidth)), Num(NormMax))),
     y      |-> MathRound(RMul(Norm(RDiv(RDiv(y, s), pageHeight)), Num(NormMax))),
     width  |-> MathRound(RMul(Norm(RDiv(RDiv(width, s), pageWidth)), Num(NormMax))),
     height |-> MathRound(RMul(Norm(RDiv(RDiv(height, s), pageHeight)), Num(NormMax)))]

\* The zoom levels the component offers.
Scales == {<<1, 2>>, <<3, 4>>, <<1, 1>>, <<5, 4>>, <<3, 2>>}

-----------------------------------------------------------------------------
(* Strings *)

DigitChars == <<"0", "1", "2", "3", "4", "5", "6", "7", "8", "9">>

\* String(n) for a natural number n.
RECURSIVE Digits(_)
Digits(n) == IF n < 10 THEN <<DigitChars[n + 1]>>
             ELSE Digits(n \div 10) \o <<DigitChars[(n % 10) + 1]>>

\* \w of a JavaScript regular expression, and the \s characters the model uses.
WordChars ==
    {"a", "b", "c", "d", "e", "f", "g", "h", "i", "j", "k", "l", "m",
     "n", "o", "p", "q", "r", "s", "t", "u", "v", "w", "x", "y", "z",
     "A", "B", "C", "D", "E", "F", "G", "H", "I", "J", "K", "L", "M",
     "N", "O", "P", "Q", "R", "S", "T", "U", "V", "W", "X", "Y", "Z",
     "0", "1", "2", "3", "4", "5", "6", "7", "8", "9", "_"}
SpaceChars == {" "}

RECURSIVE TrimStart(_)
TrimStart(t) == IF t # <<>> /\ Head(t) \in SpaceChars THEN TrimStart(Tail(t)) ELSE t

RECURSIVE TrimEnd(_)
TrimEnd(t) == IF t # <<>> /\ t[Len(t)] \in SpaceChars
              THEN TrimEnd(SubSeq(t, 1, Len(t) - 1)) ELSE t

\* text.replace(/[^\w\s]/g, '').trim()
Sanitize(t) ==
    TrimEnd(TrimStart(SelectSeq(t, LAMBDA c : c \in WordChars \cup SpaceChars)))

\* `Field ${boxId}`
FallbackName(boxId) == <<"F", "i", "e", "l", "d", " ">> \o boxId

-----------------------------------------------------------------------------
(* Box Store *)

RECURSIVE Flatten(_)
Flatten(seqs) == IF seqs = <<>> THEN <<>> ELSE Head(seqs) \o Flatten(Tail(seqs))

\* parsedResults.pages.flatMap(page => page.boxes)
AllBoxes(results) == Flatten([p \in 1..Len(results.pages) |-> results.pages[p].boxes])

\* The index of the first element that passes the test, or 0: Array.prototype.find;
\* hits[i] is the outcome of the test on the i-th element.
RECURSIVE FindFrom(_, _)
FindFrom(hits, i) ==
    IF i > Len(hits) THEN 0 ELSE IF hits[i] THEN i ELSE FindFrom(hits, i + 1)

FindIndex(hits) == FindFrom(hits, 1)

\* A box as the extraction service returns it (no id yet).
RawBox(page, x, y, width, height, text) ==
    [page |-> page, x |-> Num(x), y |-> Num(y),
     width |-> Num(width), height |-> Num(height), text |-> text]

\* `box-${page.boxes[0]?.page || 0}-${index}`
BoxId(firstPage, index) ==
    <<"b", "o", "x", "-">> \o Digits(firstPage) \o <<"-">> \o Digits(index)

\* processFileWithGemini's id assignment over the parsed response.
ProcessedData(parsedData) ==
    [pages |->
        [p \in 1..Len(parsedData.pages) |->
            LET boxes == parsedData.pages[p].boxes
            IN  [boxes |->
                    [i \in 1..Len(boxes) |->
                        [id     |-> BoxId(boxes[1].page, i - 1),
                         page   |-> boxes[i].page,
                         x      |-> boxes[i].x,
                         y      |-> boxes[i].y,
                         width  |-> boxes[i].width,
                         height |-> boxes[i].height,
                         text   |-> boxes[i].text]]]]]

-----------------------------------------------------------------------------
(* Bounds and inputs *)

\* Drag pointerMove events handled in one behaviour.
MaxMoves == 2
\* Pages of the loaded document.
MaxPage == 2

\* Pointer positions, in pixels from the canvas corner.
Pixels == {[x |-> 150, y |-> 90], [x |-> 151, y |-> 250], [x |-> 150, y |-> 310]}
\* The pointer positions used while the store is replaced.
StorePixels == {[x |-> 150, y |-> 90], [x |-> 151, y |-> 250]}
PageSizes == {[width |-> 1000, height |-> 800], [width |-> 600, height |-> 750]}

TextName  == <<"N", "a", "m", "e">>
TextDate  == <<"D", "a", "t", "e">>
TextOuter == <<"O", "u", "t", "e", "r", ":">>
TextInner == <<" ", "I", "n", "(", "1", ")">>
TextSign  == <<"S", "i", "g", "n">>

\* Two boxes on page 1.
ScenarioResponse ==
    [pages |-> << [boxes |-> <<RawBox(1, 100, 100, 200, 50, TextName),
                               RawBox(1, 100, 300, 200, 50, TextDate)>>] >>]

\* A page-2 box first in store order, then three nested boxes on page 1:
\* a middle one, a smaller one inside it, a larger one around both.
OverlapResponse ==
    [pages |-> << [boxes |-> <<RawBox(2, 100, 100, 200, 100, TextSign)>>],
                  [boxes |-> <<RawBox(1, 100, 100, 200, 100, TextOuter),
                               RawBox(1, 150, 110, 50, 20, TextInner),
                               RawBox(1, 50, 50, 400, 300, TextDate)>>] >>]

Layouts == {ProcessedData(ScenarioResponse), ProcessedData(OverlapResponse)}

TextTotal == <<"T", "o", "t", "a", "l">>
TextAnn   == <<"A", "n", "n">>
TextNameColon  == <<"N", "a", "m", "e", ":">>
TextDateParens == <<" ", "(", "D", "a", "t", "e", ")">>

\* A form of two labelled boxes on page 1.
FormResponse ==
    [pages |-> << [boxes |-> <<RawBox(1, 100, 100, 200, 50, TextNameColon),
                               RawBox(1, 100, 300, 200, 50, TextDateParens)>>] >>]

\* What processFileWithGemini can return.
ExtractionResults ==
    {[parsedResults |-> ProcessedData(FormResponse), error |-> NoError],
     [parsedResults |-> Null, error |-> "No results returned from Gemini API"],
     [parsedResults |-> Null, error |-> "Failed to parse results as JSON."]}

\* Two page entries whose boxes are both on page 1.
TwoEntriesResponse ==
    [pages |-> << [boxes |-> <<RawBox(1, 100, 100, 200, 50, TextName)>>],
                  [boxes |-> <<RawBox(1, 100, 300, 200, 50, TextDate)>>] >>]

\* What processFileWithGemini can return for the shapes of response above.
StoreExtractionResults ==
    {[parsedResults |-> ProcessedData(FormResponse), error |-> NoError],
     [parsedResults |-> ProcessedData(TwoEntriesResponse), error |-> NoError],
     [parsedResults |-> Null, error |-> "Failed to upload file or get file details."]}

\* What the coordinate inputs (type="number") hand to handleCoordinateChange.
CoordValues == {<<>>, <<"2", "5", "0">>, <<"-", "5">>}

\* The ids of the two boxes of the form, and an id no box has.
FormBox0   == BoxId(1, 0)
FormBox1   == BoxId(1, 1)
UnknownBox == BoxId(9, 9)

Mapping(fieldId, boxId) == [fieldId |-> fieldId, boxId |-> boxId]
Parsed(mappings, unmappedBoxes) ==
    [kind |-> "parsed", mappings |-> mappings, unmappedBoxes |-> unmappedBoxes]

\* What mapVariablesToBoxes can return: null, text that is not JSON, a
\* FieldMappingResult, or JSON with the mappings and no unmappedBoxes.
MappingResults ==
    {[kind |-> "null"],
     [kind |-> "unparsable"],
     Parsed(<<Mapping(TextName, FormBox0), Mapping(TextDate, FormBox1)>>, <<>>),
     Parsed(<<Mapping(TextName, FormBox1), Mapping(TextName, FormBox0)>>, <<>>),
     Parsed(<<Mapping(TextName, FormBox1)>>, <<FormBox0, UnknownBox>>),
     [kind |-> "incomplete", mappings |-> <<Mapping(TextName, FormBox1)>>]}

\* The name and the value the user types into the Variable Editor.
FieldNames  == {TextTotal}
FieldValues == {TextAnn}

\* Edits made in the Variable Editor or in the coordinate fields in one behaviour.
MaxEdits == 1
\* Uses of the view controls and of selectBoxById, saveCurrentState and a new
\* mount in one behaviour.
MaxRefCalls == 2
\* Extraction calls in one behaviour of the store lifecycle.
MaxExtractions == 2
\* Calls that reach the extraction, mapping and print services in one behaviour.
MaxCalls == 3

-----------------------------------------------------------------------------
(* Effective state of the component *)

\* App renders <PdfProcessor externalControls> without the currentPage, scale
\* and selectedBox props, so the hosted component reads their defaults.
EffCurrentPage == IF externalControls THEN 1 ELSE currentPage
EffScale       == IF externalControls THEN Num(1) ELSE scale
EffSelectedBox == IF externalControls THEN Null ELSE selectedBox

\* parsedResults.pages.flatMap(page => page.boxes).filter(box => box.page === currentPage)
CurrentPageBoxes ==
    SelectSeq(AllBoxes(parsedResults), LAMBDA b : b.page = EffCurrentPage)

\* The point-in-rectangle test of handleCanvasMouseDown, in screen pixels.
Inside(box, mx, my) ==
    LET r == normalizeCoordinates(box, Num(pageRect.width), Num(pageRect.height), EffScale)
    IN  /\ RLeq(r.x, Num(mx))
        /\ RLeq(Num(mx), RAdd(r.x, r.width))
        /\ RLeq(r.y, Num(my))
        /\ RLeq(Num(my), RAdd(r.y, r.height))

\* A hit test that lets the last matching box win.
FoundBoxLast(mx, my) ==
    LET bs == CurrentPageBoxes
        hits == {i \in 1..Len(bs) : Inside(bs[i], mx, my)}
    IN  IF hits = {} THEN Null ELSE bs[CHOOSE i \in hits : \A j \in hits : j <= i]

\* The for loop of handleCanvasMouseDown: the first match, then break.
FoundBox(mx, my) ==
    LET bs == CurrentPageBoxes
        i  == FindIndex([j \in 1..Len(bs) |-> Inside(bs[j], mx, my)])
    IN  IF i = 0 THEN Null ELSE bs[i]

\* A drag delta rounded to whole normalized units.
NormalizedDeltaRounded(delta, s, dim) ==
    Num(MathRound(RMul(Norm(RDiv(RDiv(Num(delta), s), Num(dim))), Num(NormMax))))

\* (deltaX / scale) / width * 1000
NormalizedDelta(delta, s, dim) ==
    Norm(RMul(Norm(RDiv(RDiv(Num(delta), s), Num(dim))), Num(NormMax)))

\* A move that does not test the id.
MoveBoxesAll(results, id, ndx, ndy) ==
    [pages |->
        [p \in 1..Len(results.pages) |->
            LET boxes == results.pages[p].boxes
            IN  [boxes |->
                    [i \in 1..Len(boxes) |->
                        [boxes[i] EXCEPT !.x = Norm(RAdd(@, ndx)),
                                         !.y = Norm(RAdd(@, ndy))]]]]]

\* The boxes of every page with those whose id is `id` moved by (ndx, ndy).
MoveBoxes(results, id, ndx, ndy) ==
    [pages |->
        [p \in 1..Len(results.pages) |->
            LET boxes == results.pages[p].boxes
            IN  [boxes |->
                    [i \in 1..Len(boxes) |->
                        IF boxes[i].id = id
                        THEN [boxes[i] EXCEPT !.x = Norm(RAdd(@, ndx)),
                                              !.y = Norm(RAdd(@, ndy))]
                        ELSE boxes[i]]]]]

\* flatMap(...).find(box => box.id === id), or Null
FindBoxById(results, id) ==
    LET bs == AllBoxes(results)
        i  == FindIndex([j \in 1..Len(bs) |-> bs[j].id = id])
    IN  IF i = 0 THEN Null ELSE bs[i]

-----------------------------------------------------------------------------
(* Pointer events on the canvas *)

handleCanvasMouseDown(mx, my) ==
    /\ pageRect # Null
    /\ IF parsedResults = Null
       THEN UNCHANGED <<selVars, dragOrigin>>
       ELSE LET foundBox == FoundBox(mx, my)
            IN  IF foundBox # Null
                THEN /\ selectedBox' = foundBox
                     /\ isDragging' = TRUE
                     /\ dragStart' = [x |-> mx, y |-> my]
                     /\ dragOrigin' = [mx |-> mx, my |-> my, box |-> foundBox, steps |-> 0]
                ELSE /\ selectedBox' = Null
                     /\ UNCHANGED <<isDragging, dragStart, dragOrigin>>
    /\ last' = [op |-> "pointerDown", mx |-> mx, my |-> my,
                sel |-> IF selectedBox = Null THEN <<>> ELSE selectedBox.id,
                dragging |-> isDragging]
    /\ UNCHANGED <<docVars, viewVars, fieldVars, statusVars, asyncVars, countVars,
                   applied, testVars, laterVars>>

\* A pointerMove that does not ask whether a drag is under way.
handleCanvasMouseMoveUndragged(mx, my) ==
    /\ pageRect # Null
    /\ IF EffSelectedBox = Null \/ dragStart = Null \/ parsedResults = Null
       THEN /\ last' = [op |-> "pointerMove", acted |-> FALSE]
            /\ UNCHANGED <<parsedResults, selVars, moves, dragOrigin>>
       ELSE LET ndx == NormalizedDelta(mx - dragStart.x, EffScale, pageRect.width)
                ndy == NormalizedDelta(my - dragStart.y, EffScale, pageRect.height)
                updatedResults == MoveBoxes(parsedResults, EffSelectedBox.id, ndx, ndy)
                updatedBox == FindBoxById(updatedResults, EffSelectedBox.id)
            IN  /\ moves < MaxMoves
                /\ moves' = moves + 1
                /\ dragOrigin' = [dragOrigin EXCEPT !.steps = @ + 1]
                /\ dragStart' = [x |-> mx, y |-> my]
                /\ parsedResults' = updatedResults
                /\ selectedBox' = IF updatedBox # Null THEN updatedBox ELSE selectedBox
                /\ UNCHANGED isDragging
                /\ last' = [op |-> "pointerMove", acted |-> TRUE]
    /\ UNCHANGED <<externalControls, file, viewVars, fieldVars, statusVars, asyncVars,
                   calls, edits, applied, testVars, laterVars>>

handleCanvasMouseMove(mx, my) ==
    /\ pageRect # Null
    /\ IF ~isDragging \/ EffSelectedBox = Null \/ dragStart = Null \/ parsedResults = Null
       THEN /\ last' = [op |-> "pointerMove", acted |-> FALSE]
            /\ UNCHANGED <<parsedResults, selVars, moves, dragOrigin>>
       ELSE LET ndx == NormalizedDelta(mx - dragStart.x, EffScale, pageRect.width)
                ndy == NormalizedDelta(my - dragStart.y, EffScale, pageRect.height)
                updatedResults == MoveBoxes(parsedResults, EffSelectedBox.id, ndx, ndy)
                updatedBox == FindBoxById(updatedResults, EffSelectedBox.id)
            IN  /\ moves < MaxMoves
                /\ moves' = moves + 1
                /\ dragOrigin' = [dragOrigin EXCEPT !.steps = @ + 1]
                /\ dragStart' = [x |-> mx, y |-> my]
                /\ parsedResults' = updatedResults
                /\ selectedBox' = IF updatedBox # Null THEN updatedBox ELSE selectedBox
                /\ UNCHANGED isDragging
                /\ last' = [op |-> "pointerMove", acted |-> TRUE]
    /\ UNCHANGED <<externalControls, file, viewVars, fieldVars, statusVars, asyncVars,
                   calls, edits, applied, testVars, laterVars>>

\* A pointerUp that leaves the drag on.
handleCanvasMouseUpKeeps ==
    /\ pageRect # Null
    /\ isDragging' = isDragging
    /\ last' = [op |-> "pointerUp"]
    /\ UNCHANGED <<docVars, viewVars, selectedBox, dragStart, fieldVars, statusVars,
                   asyncVars, countVars, obsVars, testVars, laterVars>>

handleCanvasMouseUp ==
    /\ pageRect # Null
    /\ isDragging' = FALSE
    /\ last' = [op |-> "pointerUp"]
    /\ UNCHANGED <<docVars, viewVars, selectedBox, dragStart, fieldVars, statusVars,
                   asyncVars, countVars, obsVars, testVars, laterVars>>

handleCanvasMouseLeave ==
    /\ pageRect # Null
    /\ isDragging' = FALSE
    /\ last' = [op |-> "pointerLeave"]
    /\ UNCHANGED <<docVars, viewVars, selectedBox, dragStart, fieldVars, statusVars,
                   asyncVars, countVars, obsVars, testVars, laterVars>>

\* handlePageChange(newPage): setCurrentPageHandler writes the internal page, or
\* tells App, whose page the hosted component never reads back.
handlePageChange(newPage) ==
    /\ currentPage' = newPage
    /\ last' = [op |-> "pageChange"]
    /\ UNCHANGED <<docVars, scale, pageRect, selVars, fieldVars, statusVars, asyncVars,
                   countVars, obsVars, testVars, laterVars>>

-----------------------------------------------------------------------------
(* Variable fields *)

\* An absent boxId.
NoBoxId == <<>>

\* undefined, in the cell that holds the list of unmapped ids (no id is made of
\* this one character).
Undefined == << <<"undefined">> >>

FieldIds(fields) == {fields[i].id : i \in 1..Len(fields)}

MaxOf(S) == IF S = {} THEN 0 ELSE CHOOSE m \in S : \A n \in S : n <= m

\* `field-${Date.now()}-${Math.random()...}`: the k-th id that no field list
\* held by the application or by a pending call uses.
FreshFieldId(k) ==
    MaxOf(FieldIds(variableFields)
          \cup (IF mapCall = Null THEN {} ELSE FieldIds(mapCall.fields))
          \cup UNION {FieldIds(extractCalls[i].fields) : i \in 1..Len(extractCalls)}) + k

BoxIdsOf(boxes) == [i \in 1..Len(boxes) |-> boxes[i].id]

\* processFile: one field per extracted box.
ExtractedFields(boxes) ==
    [i \in 1..Len(boxes) |->
        [id |-> FreshFieldId(i), name |-> Sanitize(boxes[i].text),
         value |-> <<>>, boxId |-> boxes[i].id]]

\* A name-matching step that lets the last mapping of a name win.
MatchFieldsLast(fields, mappings) ==
    [i \in 1..Len(fields) |->
        LET ms == {m \in 1..Len(mappings) : mappings[m].fieldId = fields[i].name}
        IN  IF ms = {} THEN fields[i]
            ELSE [fields[i] EXCEPT !.boxId = mappings[MaxOf(ms)].boxId]]

\* handleMapFields: fields.map(field => mappings.find(m => m.fieldId === field.name) ...)
MatchFields(fields, mappings) ==
    [i \in 1..Len(fields) |->
        LET m == FindIndex([j \in 1..Len(mappings) |-> mappings[j].fieldId = fields[i].name])
        IN  IF m = 0 THEN fields[i] ELSE [fields[i] EXCEPT !.boxId = mappings[m].boxId]]

\* updatedFields.filter(field => field.boxId).map(field => field.boxId)
ExistingBoxIds(fields) ==
    {fields[i].boxId : i \in {j \in 1..Len(fields) : fields[j].boxId # NoBoxId}}

\* handleMapFields: the fields synthesized for the unmapped boxes.
NewFieldsForUnmappedBoxes(updatedFields, allBoxes, unmappedBoxes) ==
    LET ids == SelectSeq(unmappedBoxes, LAMBDA boxId : boxId \notin ExistingBoxIds(updatedFields))
    IN  [k \in 1..Len(ids) |->
            LET b == FindIndex([j \in 1..Len(allBoxes) |-> allBoxes[j].id = ids[k]])
            IN  [id    |-> FreshFieldId(k),
                 name  |-> IF b # 0 THEN Sanitize(allBoxes[b].text) ELSE FallbackName(ids[k]),
                 value |-> <<>>,
                 boxId |-> ids[k]]]

-----------------------------------------------------------------------------
(* Rendering: the paint instructions of renderBoundingBoxes *)

\* strokeRect and fillRect of one box in a style, and the fillText label of a
\* mapped box (<<>> when no text is drawn).
Paint(box, style, label) ==
    [box |-> box.id, page |-> box.page, style |-> style, label |-> label,
     rect |-> normalizeCoordinates(box, Num(pageRect.width), Num(pageRect.height), EffScale)]

\* field.value || `[${field.name}]`
Label(field) == IF field.value # <<>> THEN field.value ELSE <<"[">> \o field.name \o <<"]">>

\* The blue style of the selected box, the red one of the others.
OutlineStyle(box) ==
    IF EffSelectedBox # Null /\ EffSelectedBox.id = box.id THEN "selected" ELSE "outline"

\* The forEach over the boxes of the current page from the i-th on, in the
\* branch of showVariables && variableMappings.length > 0; it ends with a
\* TypeError at unmappedBoxIds.includes when the list is undefined.
RECURSIVE PaintVariables(_, _)
PaintVariables(bs, i) ==
    IF i > Len(bs) THEN <<>>
    ELSE LET box == bs[i]
             f == FindIndex([j \in 1..Len(variableFields) |-> variableFields[j].boxId = box.id])
         IN  IF f # 0
             THEN <<Paint(box, "mapped", Label(variableFields[f]))>> \o PaintVariables(bs, i + 1)
             ELSE IF unmappedBoxIds = Undefined
             THEN <<[box |-> box.id, page |-> box.page, style |-> "TypeError",
                     label |-> <<>>, rect |-> Null]>>
             ELSE IF \E k \in 1..Len(unmappedBoxIds) : unmappedBoxIds[k] = box.id
             THEN <<Paint(box, OutlineStyle(box), <<>>)>> \o PaintVariables(bs, i + 1)
             ELSE PaintVariables(bs, i + 1)

\* renderBoundingBoxes over the state of the current render.
renderBoundingBoxes ==
    IF parsedResults = Null \/ pageRect = Null THEN <<>>
    ELSE IF showVariables /\ Len(variableMappings) > 0
    THEN PaintVariables(CurrentPageBoxes, 1)
    ELSE [i \in 1..Len(CurrentPageBoxes) |->
              Paint(CurrentPageBoxes[i], OutlineStyle(CurrentPageBoxes[i]), <<>>)]

-----------------------------------------------------------------------------
(* Choosing a file, extraction, mapping; the API key is present throughout *)

handleFileChange ==
    /\ file' = "file"
    /\ error' = NoError
    /\ parsedResults' = Null
    /\ selectedBox' = Null
    /\ variableMappings' = <<>>
    /\ unmappedBoxIds' = <<>>
    /\ last' = [op |-> "fileChange", replaced |-> parsedResults # Null,
                fields |-> variableFields]
    /\ UNCHANGED <<externalControls, viewVars, isDragging, dragStart, variableFields,
                   showVariables, isProcessing, asyncVars, countVars, obsVars, testVars, laterVars>>

\* A key of the loaded JSON file: absent, or present with a value.
Absent == [present |-> FALSE]
Present(v) == [present |-> TRUE, value |-> v]

\* What the file picker of loadBoundingBoxData resolves with: a rejection, a
\* document saved without variable fields (saveBoundingBoxData writes no key
\* for an empty list), a document saved with its fields and mappings.
LoadResults ==
    {[kind |-> "rejected"],
     [kind |-> "loaded", parsedResults |-> ProcessedData(ScenarioResponse),
      variableFields |-> Absent, variableMappings |-> Absent, unmappedBoxIds |-> Absent],
     [kind |-> "loaded", parsedResults |-> ProcessedData(FormResponse),
      variableFields |->
          Present(<<[id |-> 1, name |-> TextName, value |-> TextAnn, boxId |-> FormBox0]>>),
      variableMappings |-> Present(<<Mapping(TextName, FormBox0)>>),
      unmappedBoxIds |-> Present(<<FormBox1>>)]}

\* loadBoundingBoxData from the value its service resolves with to its end.
loadBoundingBoxData(loadedData) ==
    /\ IF loadedData.kind = "rejected"
       THEN /\ error' = "Error loading bounding box data: No file selected"
            /\ UNCHANGED <<file, parsedResults, selectedBox, fieldVars>>
       ELSE /\ file' = "file"
            /\ parsedResults' = loadedData.parsedResults
            /\ variableFields' = IF loadedData.variableFields.present
                                 THEN loadedData.variableFields.value ELSE variableFields
            /\ variableMappings' = IF loadedData.variableMappings.present
                                   THEN loadedData.variableMappings.value
                                   ELSE variableMappings
            /\ unmappedBoxIds' = IF loadedData.unmappedBoxIds.present
                                 THEN loadedData.unmappedBoxIds.value
                                 ELSE SelectSeq(BoxIdsOf(AllBoxes(loadedData.parsedResults)),
                                                LAMBDA id : id # <<>>)
            /\ selectedBox' = IF externalControls THEN Null ELSE selectedBox
            /\ UNCHANGED <<error, showVariables>>
    /\ last' = [op |-> "loadBoundingBoxData", loaded |-> loadedData.kind = "loaded",
                replaced |-> parsedResults # Null, fields |-> variableFields,
                withFields |-> loadedData.kind = "loaded" /\ loadedData.variableFields.present]
    /\ UNCHANGED <<externalControls, viewVars, isDragging, dragStart, isProcessing,
                   asyncVars, countVars, obsVars, testVars, laterVars>>

\* processFile up to its await; the call keeps the variableFields of the
\* render it was made in (and, for the properties, whether another extraction
\* call was in flight at some moment of its own flight).
processFile ==
    /\ IF file = NoFile
       THEN /\ error' = "Missing file or API key"
            /\ UNCHANGED <<isProcessing, extractCalls, calls>>
       ELSE /\ calls < MaxCalls
            /\ calls' = calls + 1
            /\ isProcessing' = TRUE
            /\ error' = NoError
            /\ extractCalls' =
                   Append([i \in 1..Len(extractCalls) |->
                               [extractCalls[i] EXCEPT !.overlapped = TRUE]],
                          [fields |-> variableFields, overlapped |-> Len(extractCalls) > 0])
    /\ last' = [op |-> "processFile"]
    /\ UNCHANGED <<docVars, viewVars, selVars, fieldVars, mapCall, moves, edits,
                   obsVars, testVars, laterVars>>

\* processFile from the result of processFileWithGemini to its end.
processFileResult(c, result) ==
    LET call == extractCalls[c]
        boxes == AllBoxes(result.parsedResults)
    IN  /\ extractCalls' = SubSeq(extractCalls, 1, c - 1)
                            \o SubSeq(extractCalls, c + 1, Len(extractCalls))
        /\ parsedResults' = result.parsedResults
        /\ error' = IF result.error # NoError THEN result.error ELSE error
        /\ isProcessing' = FALSE
        /\ IF result.parsedResults # Null
           THEN /\ variableMappings' = <<>>
                /\ variableFields' = IF Len(call.fields) = 0
                                     THEN ExtractedFields(boxes) ELSE variableFields
                /\ unmappedBoxIds' = SelectSeq(BoxIdsOf(boxes), LAMBDA id : id # <<>>)
                /\ selectedBox' = IF externalControls THEN Null ELSE selectedBox
                /\ last' = [op |-> "processFileResult", parsed |-> TRUE,
                            closure |-> call.fields, before |-> variableFields,
                            result |-> result, overlapped |-> call.overlapped]
           ELSE /\ UNCHANGED <<variableMappings, variableFields, unmappedBoxIds, selectedBox>>
                /\ last' = [op |-> "processFileResult", parsed |-> FALSE,
                            results |-> parsedResults, selected |-> selectedBox,
                            fields |-> variableFields, mappings |-> variableMappings,
                            unmapped |-> unmappedBoxIds, closure |-> call.fields,
                            result |-> result, overlapped |-> call.overlapped]
        /\ UNCHANGED <<externalControls, file, viewVars, isDragging, dragStart,
                       showVariables, mapCall, countVars, obsVars, testVars, laterVars>>

\* What printFilledPdf can return: success, or an error message.
PrintResults == {NoError, "Print window was blocked. Please allow popups and try again."}

\* printPdf up to its await (pdfUrl is set whenever a file is).
printPdf ==
    /\ IF file = NoFile \/ Len(variableFields) = 0 \/ parsedResults = Null
       THEN /\ error' = "Missing file or variable fields to print PDF"
            /\ UNCHANGED <<isProcessing, printCalls, calls>>
       ELSE /\ calls < MaxCalls
            /\ calls' = calls + 1
            /\ isProcessing' = TRUE
            /\ error' = NoError
            /\ printCalls' = printCalls + 1
    /\ last' = [op |-> "printPdf"]
    /\ UNCHANGED <<docVars, viewVars, selVars, fieldVars, asyncVars, moves, edits,
                   obsVars, testVars, savedState, timers, refCalls>>

\* printPdf from the result of printFilledPdf to its end.
printPdfResult(result) ==
    /\ printCalls > 0
    /\ printCalls' = printCalls - 1
    /\ error' = IF result # NoError THEN result ELSE error
    /\ isProcessing' = FALSE
    /\ last' = [op |-> "printPdfResult"]
    /\ UNCHANGED <<docVars, viewVars, selVars, fieldVars, asyncVars, countVars,
                   obsVars, testVars, savedState, timers, refCalls>>

\* handleMapFields up to its await.  App calls it with its own variableFields,
\* which is the list the component reads as its prop; App's Map Fields button
\* is disabled while a call is pending.
handleMapFields ==
    /\ mapCall = Null
    /\ IF parsedResults = Null \/ Len(variableFields) = 0
       THEN /\ error' = "Missing PDF data, API key, or variable fields"
            /\ UNCHANGED <<mapCall, calls>>
       ELSE /\ calls < MaxCalls
            /\ calls' = calls + 1
            /\ error' = NoError
            /\ mapCall' = [fields |-> variableFields, allBoxes |-> AllBoxes(parsedResults)]
    /\ last' = [op |-> "handleMapFields"]
    /\ UNCHANGED <<docVars, viewVars, selVars, fieldVars, isProcessing, extractCalls,
                   moves, edits, obsVars, testVars, laterVars>>

\* A handleMapFields whose catch block reports nothing.
MapFieldsErrorSilent(result, err) == err

\* The error message after a result that was not applied: null is skipped by
\* `if (result)`; a SyntaxError of JSON.parse and a TypeError of the statements
\* after it both reach the inner catch.
MapFieldsError(result, err) ==
    IF result.kind \in {"unparsable", "incomplete"}
    THEN "Failed to parse mapping results as JSON." ELSE err

\* handleMapFields from the result of mapVariablesToBoxes to its end, and, when
\* App hosts the component, App's handleMapFields from the value returned.
handleMapFieldsResult(result) ==
    /\ mapCall # Null
    /\ mapCall' = Null
    /\ IF result.kind = "parsed"
       THEN LET updatedFields == MatchFields(mapCall.fields, result.mappings)
                newFieldsForUnmappedBoxes ==
                    NewFieldsForUnmappedBoxes(updatedFields, mapCall.allBoxes,
                                              result.unmappedBoxes)
                published == IF Len(newFieldsForUnmappedBoxes) > 0
                             THEN updatedFields \o newFieldsForUnmappedBoxes
                             ELSE updatedFields
                final == IF externalControls THEN updatedFields ELSE published
            IN  /\ variableFields' = final
                /\ variableMappings' = result.mappings
                /\ unmappedBoxIds' = result.unmappedBoxes
                /\ showVariables' = TRUE
                /\ applied' = [result |-> result, fields |-> final]
                /\ last' = [op |-> "handleMapFieldsResult", parsed |-> TRUE,
                            fields |-> mapCall.fields, allBoxes |-> mapCall.allBoxes,
                            result |-> result, published |-> published,
                            before |-> variableFields,
                            again |-> /\ applied # Null
                                      /\ applied.result = result
                                      /\ applied.fields = mapCall.fields]
                /\ UNCHANGED error
       ELSE /\ error' = MapFieldsError(result, error)
            /\ last' = [op |-> "handleMapFieldsResult", parsed |-> FALSE,
                        kind |-> result.kind, fields |-> variableFields,
                        mappings |-> variableMappings, unmapped |-> unmappedBoxIds]
            /\ UNCHANGED applied
            /\ IF result.kind = "incomplete"
               THEN \* the statements before mappingResult.unmappedBoxes.filter throws
                    /\ variableFields' = MatchFields(mapCall.fields, result.mappings)
                    /\ variableMappings' = result.mappings
                    /\ unmappedBoxIds' = Undefined
                    /\ UNCHANGED showVariables
               ELSE UNCHANGED fieldVars
    /\ UNCHANGED <<docVars, viewVars, selVars, isProcessing, extractCalls,
                   countVars, dragOrigin, testVars, laterVars>>

-----------------------------------------------------------------------------
(* The Variable Editor: VariableFieldsManager over the same field list *)

handleAddField(name) ==
    /\ variableFields' = Append(variableFields,
                                [id |-> FreshFieldId(1), name |-> name,
                                 value |-> <<>>, boxId |-> NoBoxId])
    /\ last' = [op |-> "handleAddField"]
    /\ edits < MaxEdits
    /\ edits' = edits + 1
    /\ UNCHANGED <<docVars, viewVars, selVars, variableMappings, unmappedBoxIds,
                   showVariables, statusVars, asyncVars, moves, calls,
                   obsVars, testVars, laterVars>>

handleFieldUpdate(id, value) ==
    /\ id \in FieldIds(variableFields)
    /\ variableFields' = [i \in 1..Len(variableFields) |->
                            IF variableFields[i].id = id
                            THEN [variableFields[i] EXCEPT !.value = value]
                            ELSE variableFields[i]]
    /\ last' = [op |-> "handleFieldUpdate"]
    /\ edits < MaxEdits
    /\ edits' = edits + 1
    /\ UNCHANGED <<docVars, viewVars, selVars, variableMappings, unmappedBoxIds,
                   showVariables, statusVars, asyncVars, moves, calls,
                   obsVars, testVars, laterVars>>

handleRemoveField(id) ==
    /\ id \in FieldIds(variableFields)
    /\ variableFields' = SelectSeq(variableFields, LAMBDA f : f.id # id)
    /\ last' = [op |-> "handleRemoveField"]
    /\ edits < MaxEdits
    /\ edits' = edits + 1
    /\ UNCHANGED <<docVars, viewVars, selVars, variableMappings, unmappedBoxIds,
                   showVariables, statusVars, asyncVars, moves, calls,
                   obsVars, testVars, laterVars>>

handleDeleteAllVariables ==
    /\ variableFields' = <<>>
    /\ last' = [op |-> "handleDeleteAllVariables"]
    /\ edits < MaxEdits
    /\ edits' = edits + 1
    /\ UNCHANGED <<docVars, viewVars, selVars, variableMappings, unmappedBoxIds,
                   showVariables, statusVars, asyncVars, moves, calls,
                   obsVars, testVars, laterVars>>

-----------------------------------------------------------------------------
(* Coordinate fields, selection by id, view controls *)

\* The value of isNaN(n) and, when it is FALSE, the number n.
NaN == [nan |-> TRUE]
IntValue(n) == [nan |-> FALSE, n |-> n]

DigitValue(c) == CHOOSE d \in 0..9 : DigitChars[d + 1] = c

\* The longest prefix of t made of decimal digits.
RECURSIVE DigitsPrefix(_)
DigitsPrefix(t) ==
    IF t # <<>> /\ \E d \in 1..10 : DigitChars[d] = Head(t)
    THEN <<Head(t)>> \o DigitsPrefix(Tail(t)) ELSE <<>>

RECURSIVE DigitsValue(_)
DigitsValue(ds) ==
    IF ds = <<>> THEN 0
    ELSE 10 * DigitsValue(SubSeq(ds, 1, Len(ds) - 1)) + DigitValue(ds[Len(ds)])

\* parseInt(value, 10): leading white space, an optional sign, then the digits
\* up to the first character that is not one; NaN when there is no digit.
ParseInt(value) ==
    LET t  == TrimStart(value)
        u  == IF t # <<>> /\ Head(t) \in {"-", "+"} THEN Tail(t) ELSE t
        ds == DigitsPrefix(u)
    IN  IF ds = <<>> THEN NaN
        ELSE IF Head(t) = "-" THEN IntValue(-DigitsValue(ds)) ELSE IntValue(DigitsValue(ds))

CoordFields == {"x", "y", "width", "height"}

\* The boxes of every page with [field] of those whose id is `id` set to numValue.
EditBoxes(results, id, field, numValue) ==
    [pages |->
        [p \in 1..Len(results.pages) |->
            LET boxes == results.pages[p].boxes
            IN  [boxes |->
                    [i \in 1..Len(boxes) |->
                        IF boxes[i].id = id
                        THEN [boxes[i] EXCEPT ![field] = Num(numValue)]
                        ELSE boxes[i]]]]]

\* handleCoordinateChange(field, value).  The hosted component reads no
\* selectedBox prop and returns at its first guard.
handleCoordinateChange(field, value) ==
    LET numValue == ParseInt(value)
    IN  /\ IF EffSelectedBox = Null \/ parsedResults = Null \/ numValue.nan
           THEN UNCHANGED <<parsedResults, selectedBox, edits>>
           ELSE LET updatedResults == EditBoxes(parsedResults, EffSelectedBox.id,
                                                field, numValue.n)
                    updatedBox == FindBoxById(updatedResults, EffSelectedBox.id)
                IN  /\ edits < MaxEdits
                    /\ edits' = edits + 1
                    /\ parsedResults' = updatedResults
                    /\ selectedBox' = IF updatedBox # Null THEN updatedBox ELSE selectedBox
        /\ last' = [op |-> "coordinateChange", field |-> field, num |-> numValue,
                    results |-> parsedResults, selected |-> EffSelectedBox,
                    error |-> error]
        /\ UNCHANGED <<externalControls, file, viewVars, isDragging, dragStart, fieldVars,
                       statusVars, asyncVars, moves, calls, obsVars, testVars, laterVars>>

\* The body of selectBoxById(boxId) over the parsedResults and currentPage of
\* the render that created the callback; `rest` are the timers that stay.
SelectBoxById(boxId, results, page, rest) ==
    LET boxToSelect == IF boxId = NoBoxId \/ results = Null THEN Null
                       ELSE FindBoxById(results, boxId)
    IN  IF boxToSelect = Null
        THEN /\ selectedBox' = Null
             /\ timers' = rest
             /\ UNCHANGED currentPage
        ELSE IF boxToSelect.page # page
        THEN /\ currentPage' = boxToSelect.page
             /\ timers' = Append(rest, [kind |-> "select", box |-> boxToSelect])
             /\ UNCHANGED selectedBox
        ELSE /\ selectedBox' = boxToSelect
             /\ timers' = rest
             /\ UNCHANGED currentPage

\* selectBoxById as the ref exposes it: the callback of the current render.
selectBoxById(boxId) ==
    /\ SelectBoxById(boxId, parsedResults, EffCurrentPage, timers)
    /\ last' = [op |-> "selectBoxById"]
    /\ refCalls < MaxRefCalls
    /\ refCalls' = refCalls + 1
    /\ UNCHANGED <<docVars, scale, pageRect, isDragging, dragStart, fieldVars, statusVars,
                   asyncVars, countVars, obsVars, testVars, savedState, printCalls>>

toggleVariableView ==
    /\ showVariables' = ~showVariables
    /\ last' = [op |-> "toggleVariableView"]
    /\ refCalls < MaxRefCalls
    /\ refCalls' = refCalls + 1
    /\ UNCHANGED <<docVars, viewVars, selVars, variableFields, variableMappings,
                   unmappedBoxIds, statusVars, asyncVars, countVars, obsVars, testVars,
                   savedState, timers, printCalls>>

\* The zoom <select> of the component that runs on its own.
handleScaleChange(s) ==
    /\ ~externalControls
    /\ scale' = s
    /\ last' = [op |-> "scaleChange"]
    /\ refCalls < MaxRefCalls
    /\ refCalls' = refCalls + 1
    /\ UNCHANGED <<docVars, currentPage, pageRect, selVars, fieldVars, statusVars,
                   asyncVars, countVars, obsVars, testVars, savedState, timers, printCalls>>

-----------------------------------------------------------------------------
(* Snapshot and restore through localStorage; timers *)

\* saveCurrentState: JSON.stringify of the effective state (a key whose value
\* is undefined is left out, and restoreState then skips it).
saveCurrentState ==
    /\ IF file = NoFile /\ parsedResults = Null
       THEN UNCHANGED savedState
       ELSE savedState' =
                [hasFile          |-> file # NoFile,
                 parsedResults    |-> parsedResults,
                 currentPage      |-> EffCurrentPage,
                 scale            |-> EffScale,
                 selectedBoxId    |-> IF EffSelectedBox = Null THEN NoBoxId
                                      ELSE EffSelectedBox.id,
                 variableFields   |-> variableFields,
                 variableMappings |-> variableMappings,
                 unmappedBoxIds   |-> unmappedBoxIds,
                 showVariables    |-> showVariables]
    /\ last' = [op |-> "saveCurrentState"]
    /\ refCalls < MaxRefCalls
    /\ refCalls' = refCalls + 1
    /\ UNCHANGED <<docVars, viewVars, selVars, fieldVars, statusVars, asyncVars,
                   countVars, obsVars, testVars, timers, printCalls>>

\* The component is mounted anew (no service call or timer of the previous
\* instance is pending) and its mount effect runs restoreState.  App keeps its
\* own cells (page, selection, variable fields) across the mount.
mount ==
    /\ extractCalls = <<>> /\ mapCall = Null /\ timers = <<>> /\ printCalls = 0
    /\ isDragging' = FALSE
    /\ dragStart' = Null
    /\ pageRect' = Null
    /\ error' = NoError
    /\ isProcessing' = FALSE
    /\ IF savedState = Null
       THEN /\ file' = NoFile
            /\ parsedResults' = Null
            /\ currentPage' = IF externalControls THEN currentPage ELSE 1
            /\ scale' = Num(1)
            /\ selectedBox' = IF externalControls THEN selectedBox ELSE Null
            /\ variableFields' = IF externalControls THEN variableFields ELSE <<>>
            /\ variableMappings' = <<>>
            /\ unmappedBoxIds' = <<>>
            /\ showVariables' = TRUE
            /\ timers' = <<>>
            /\ last' = [op |-> "mount"]
       ELSE LET restoredSelectedBox ==
                    IF savedState.selectedBoxId = NoBoxId THEN Null
                    ELSE FindBoxById(savedState.parsedResults, savedState.selectedBoxId)
            IN  /\ file' = IF savedState.hasFile THEN "file" ELSE NoFile
                /\ parsedResults' = savedState.parsedResults
                /\ variableFields' = savedState.variableFields
                /\ variableMappings' = savedState.variableMappings
                /\ unmappedBoxIds' = IF savedState.unmappedBoxIds = Undefined THEN <<>>
                                     ELSE savedState.unmappedBoxIds
                /\ showVariables' = savedState.showVariables
                /\ currentPage' = savedState.currentPage
                /\ scale' = IF externalControls THEN Num(1) ELSE savedState.scale
                \* hosted: the effect on parsedResults reports no selection to App
                /\ selectedBox' = IF externalControls /\ savedState.parsedResults = Null
                                  THEN selectedBox ELSE Null
                \* the deferred selectBoxById is the callback of the mount render
                /\ timers' = <<[kind |-> "restoreSelection",
                                id |-> savedState.selectedBoxId,
                                results |-> Null, page |-> 1]>>
                             \o (IF externalControls /\ savedState.parsedResults # Null
                                 THEN <<[kind |-> "boxesLoaded",
                                         id |-> savedState.selectedBoxId,
                                         selected |-> restoredSelectedBox]>>
                                 ELSE <<>>)
                /\ last' = [op |-> "restoreState"]
    /\ refCalls < MaxRefCalls
    /\ refCalls' = refCalls + 1
    /\ UNCHANGED <<externalControls, asyncVars, countVars, obsVars, testVars, savedState,
                   printCalls>>

\* The oldest setTimeout callback runs.
timeout ==
    /\ timers # <<>>
    /\ LET t == Head(timers)
           rest == Tail(timers)
       IN  CASE t.kind = "select" ->
                    /\ selectedBox' = t.box
                    /\ timers' = rest
                    /\ UNCHANGED currentPage
                    /\ last' = [op |-> "selectTimeout"]
             [] t.kind = "restoreSelection" ->
                    /\ SelectBoxById(t.id, t.results, t.page, rest)
                    /\ last' = [op |-> "restoreSelectionTimeout", id |-> t.id]
             [] t.kind = "boxesLoaded" ->
                    /\ selectedBox' = t.selected
                    /\ timers' = rest
                    /\ UNCHANGED currentPage
                    /\ last' = [op |-> "boxesLoadedTimeout", id |-> t.id]
    /\ UNCHANGED <<docVars, scale, pageRect, isDragging, dragStart, fieldVars, statusVars,
                   asyncVars, countVars, obsVars, testVars, savedState, refCalls, printCalls>>

-----------------------------------------------------------------------------
(* Transform round trip: normalizeCoordinates, then denormalizeCoordinates *)

CoordSamples == {1, NormMax}

TNormalize ==
    /\ roundTrip.stage = "input"
    /\ roundTrip' = [roundTrip EXCEPT
            !.stage = "screen",
            !.screen = normalizeCoordinates(roundTrip.box, Num(roundTrip.page.width),
                                            Num(roundTrip.page.height), roundTrip.scale)]
    /\ UNCHANGED <<docVars, viewVars, selVars, fieldVars, statusVars, asyncVars,
                   countVars, obsVars, last, laterVars>>

TDenormalize ==
    /\ roundTrip.stage = "screen"
    /\ roundTrip' = [roundTrip EXCEPT
            !.stage = "back",
            !.back = denormalizeCoordinates(
                        roundTrip.screen.x, roundTrip.screen.y,
                        roundTrip.screen.width, roundTrip.screen.height,
                        Num(roundTrip.page.width), Num(roundTrip.page.height),
                        roundTrip.scale)]
    /\ UNCHANGED <<docVars, viewVars, selVars, fieldVars, statusVars, asyncVars,
                   countVars, obsVars, last, laterVars>>

-----------------------------------------------------------------------------
(* Initial states *)

\* The component as constructed: nothing loaded.
InitComponent ==
    /\ externalControls \in BOOLEAN
    /\ file = NoFile
    /\ parsedResults = Null
    /\ currentPage = 1
    /\ scale = Num(1)
    /\ pageRect = Null
    /\ selectedBox = Null
    /\ isDragging = FALSE
    /\ dragStart = Null
    /\ variableFields = <<>>
    /\ variableMappings = <<>>
    /\ unmappedBoxIds = <<>>
    /\ showVariables = TRUE
    /\ error = NoError
    /\ isProcessing = FALSE
    /\ extractCalls = <<>>
    /\ mapCall = Null
    /\ moves = 0
    /\ dragOrigin = Null
    /\ calls = 0
    /\ edits = 0
    /\ applied = Null
    /\ last = [op |-> "init"]
    /\ savedState = Null
    /\ timers = <<>>
    /\ refCalls = 0
    /\ printCalls = 0

NoTransform == roundTrip = [stage |-> "none"]

\* A document is rendered and its boxes are in the store, as an extraction
\* leaves them when the user's field list is then emptied; nothing is selected.
InitPointer ==
    /\ externalControls \in BOOLEAN
    /\ file = "file"
    /\ parsedResults \in Layouts
    /\ currentPage = 1
    /\ scale \in (IF externalControls THEN {Num(1)} ELSE Scales)
    /\ pageRect \in PageSizes
    /\ selectedBox = Null
    /\ isDragging = FALSE
    /\ dragStart = Null
    /\ extractCalls = <<>>
    /\ mapCall = Null
    /\ variableFields = <<>>
    /\ variableMappings = <<>>
    /\ unmappedBoxIds = BoxIdsOf(AllBoxes(parsedResults))
    /\ showVariables = TRUE
    /\ error = NoError
    /\ isProcessing = FALSE
    /\ moves = 0
    /\ dragOrigin = Null
    /\ calls = 0
    /\ edits = 0
    /\ applied = Null
    /\ last = [op |-> "init"]
    /\ savedState = Null
    /\ timers = <<>>
    /\ refCalls = 0
    /\ printCalls = 0
    /\ NoTransform

\* A document is rendered and its boxes are in the store, for each shape of
\* extracted store.
InitView ==
    /\ externalControls \in BOOLEAN
    /\ file = "file"
    /\ parsedResults \in Layouts \cup {ProcessedData(TwoEntriesResponse)}
    /\ currentPage = 1
    /\ scale = Num(1)
    /\ pageRect \in PageSizes
    /\ selectedBox = Null
    /\ isDragging = FALSE
    /\ dragStart = Null
    /\ extractCalls = <<>>
    /\ mapCall = Null
    /\ variableFields = <<>>
    /\ variableMappings = <<>>
    /\ unmappedBoxIds = BoxIdsOf(AllBoxes(parsedResults))
    /\ showVariables = TRUE
    /\ error = NoError
    /\ isProcessing = FALSE
    /\ moves = 0
    /\ dragOrigin = Null
    /\ calls = 0
    /\ edits = 0
    /\ applied = Null
    /\ last = [op |-> "init"]
    /\ savedState = Null
    /\ timers = <<>>
    /\ refCalls = 0
    /\ printCalls = 0
    /\ NoTransform

InitTransform ==
    /\ InitComponent
    /\ \E v \in 0..NormMax, w \in CoordSamples, h \in CoordSamples,
          page \in PageSizes \cup {[width |-> 7, height |-> 3]}, s \in Scales :
          roundTrip = [stage |-> "input",
                       box |-> [x |-> Num(v), y |-> Num(NormMax - v),
                                width |-> Num(w), height |-> Num(h)],
                       page |-> page, scale |-> s, screen |-> Null, back |-> Null]

NextPointer ==
    \/ \E m \in Pixels : handleCanvasMouseDown(m.x, m.y)
    \/ \E m \in Pixels : handleCanvasMouseMove(m.x, m.y)
    \/ handleCanvasMouseUp
    \/ handleCanvasMouseLeave
    \/ \E p \in 1..MaxPage : handlePageChange(p)

NextTransform == TNormalize \/ TDenormalize

NextFields ==
    \/ handleFileChange
    \/ processFile
    \/ \E c \in 1..Len(extractCalls), result \in ExtractionResults : processFileResult(c, result)
    \/ handleMapFields
    \/ \E result \in MappingResults : handleMapFieldsResult(result)
    \/ \E name \in FieldNames : handleAddField(name)
    \/ \E id \in FieldIds(variableFields), value \in FieldValues : handleFieldUpdate(id, value)
    \/ \E id \in FieldIds(variableFields) : handleRemoveField(id)
    \/ handleDeleteAllVariables

\* The component as constructed, outside any transform round trip.
Init == InitComponent /\ NoTransform

\* The document loads and its page renders: page 1 is shown, at some size.
onDocumentLoadSuccess ==
    /\ file # NoFile
    /\ currentPage' = 1
    /\ pageRect' \in PageSizes
    /\ last' = [op |-> "documentLoad"]
    /\ UNCHANGED <<docVars, scale, selVars, fieldVars, statusVars, asyncVars, countVars,
                   obsVars, testVars, laterVars>>

Next == NextFields \/ onDocumentLoadSuccess \/ NextPointer

\* The ids selectBoxById is called with: null, the id of a box, an id of no box.
SelectableIds ==
    {NoBoxId, UnknownBox}
        \cup (IF parsedResults = Null THEN {}
              ELSE {AllBoxes(parsedResults)[i].id : i \in 1..Len(AllBoxes(parsedResults))})

\* Selecting a box with the pointer, changing the page and editing the
\* selected box's coordinate fields.
NextEdit ==
    \/ \E m \in Pixels : handleCanvasMouseDown(m.x, m.y)
    \/ \E p \in 1..MaxPage : handlePageChange(p)
    \/ \E f \in CoordFields, v \in CoordValues : handleCoordinateChange(f, v)

\* Selecting a box, the view controls, a snapshot and a new mount.
NextView ==
    \/ \E m \in Pixels : handleCanvasMouseDown(m.x, m.y)
    \/ onDocumentLoadSuccess
    \/ \E p \in 1..MaxPage : handlePageChange(p)
    \/ \E id \in SelectableIds : selectBoxById(id)
    \/ toggleVariableView
    \/ \E s \in Scales : handleScaleChange(s)
    \/ saveCurrentState
    \/ mount
    \/ timeout

\* The store lifecycle with the pointer and the coordinate fields; the file
\* input and the extract button are disabled while isProcessing.  A behaviour
\* changes boxes by drags or by a coordinate edit, not by both.
NextStore ==
    \/ (~isProcessing /\ handleFileChange)
    \/ (~isProcessing /\ calls < MaxExtractions /\ processFile)
    \/ \E c \in 1..Len(extractCalls), result \in StoreExtractionResults :
            processFileResult(c, result)
    \/ onDocumentLoadSuccess
    \/ \E m \in StorePixels : handleCanvasMouseDown(m.x, m.y)
    \/ \E m \in StorePixels : edits = 0 /\ handleCanvasMouseMove(m.x, m.y)
    \/ handleCanvasMouseUp
    \/ \E f \in CoordFields, v \in CoordValues : moves = 0 /\ handleCoordinateChange(f, v)

\* Documents replacing one another: a file is chosen, extracted, or loaded
\* with its boxes from a saved JSON file; the user adds a field of their own.
NextDocument ==
    \/ handleFileChange
    \/ (~isProcessing /\ calls < MaxExtractions /\ processFile)
    \/ \E c \in 1..Len(extractCalls), result \in StoreExtractionResults :
            processFileResult(c, result)
    \/ \E loadedData \in LoadResults : loadBoundingBoxData(loadedData)
    \/ onDocumentLoadSuccess
    \/ \E name \in FieldNames : handleAddField(name)
    \/ \E m \in StorePixels : handleCanvasMouseDown(m.x, m.y)

\* Long-running operations overlapping.  The component's own buttons are
\* disabled while isProcessing; App's file input and extract button read
\* pdfProcessorRef.current.isProcessing in App's render, which a change of the
\* component's isProcessing does not cause, and App's print button does not
\* read it.
NextOverlap ==
    \/ ((externalControls \/ ~isProcessing) /\ handleFileChange)
    \/ ((externalControls \/ ~isProcessing) /\ processFile)
    \/ \E c \in 1..Len(extractCalls), result \in StoreExtractionResults :
            processFileResult(c, result)
    \/ ((externalControls \/ ~isProcessing) /\ printPdf)
    \/ \E result \in PrintResults : printPdfResult(result)

Spec == Init /\ [][Next]_vars
SpecOverlap == Init /\ [][NextOverlap]_vars
SpecDocument == Init /\ [][NextDocument]_vars
SpecStore == Init /\ [][NextStore]_vars
SpecEdit == InitView /\ [][NextEdit]_vars
SpecView == InitView /\ [][NextView]_vars
SpecFields == Init /\ [][NextFields]_vars
SpecPointer == InitPointer /\ [][NextPointer]_vars
SpecTransform == InitTransform /\ [][NextTransform]_vars

-----------------------------------------------------------------------------
(* Properties of the coordinate transform and of the pointer handlers *)

\* C1: for integer x, y, width, height in 0..1000 and positive page width,
\* page height and scale, denormalizeCoordinates of normalizeCoordinates
\* returns each of the four values within 1 of the original.
C1_RoundTripWithinOne ==
    roundTrip.stage = "back" =>
        /\ Abs(roundTrip.back.x - roundTrip.box.x[1]) <= 1
        /\ Abs(roundTrip.back.y - roundTrip.box.y[1]) <= 1
        /\ Abs(roundTrip.back.width - roundTrip.box.width[1]) <= 1
        /\ Abs(roundTrip.back.height - roundTrip.box.height[1]) <= 1

\* A round trip at a zoom other than 1 whose screen rectangle is not whole pixels.
C1_Witness ==
    /\ roundTrip.stage = "back"
    /\ roundTrip.scale # Num(1)
    /\ roundTrip.screen.x[2] # 1
    /\ roundTrip.screen.height[2] # 1
    /\ roundTrip.back.x = roundTrip.box.x[1]

\* The box that the current drag took hold of, as it is in the store now.
DraggedBox == FindBoxById(parsedResults, dragOrigin.box.id)

\* (delta / scale) / dim * 1000, not reduced
ExactDelta(delta, dim) == RMul(RDiv(RDiv(Num(delta), EffScale), Num(dim)), Num(NormMax))

Under(mx, my) == {i \in 1..Len(CurrentPageBoxes) : Inside(CurrentPageBoxes[i], mx, my)}

\* C3: when the pointer of a pointerDown lies inside the screen rectangles of
\* two boxes A and B of the current page and A precedes B in store order, the
\* event never selects B; it selects A, the earliest box under the pointer.
C3_FirstMatchWins ==
    last.op = "pointerDown" =>
        LET under == Under(last.mx, last.my)
        IN  \A a \in under, b \in under :
                a < b =>
                    /\ selectedBox # CurrentPageBoxes[b]
                    /\ (\A c \in under : a <= c) => selectedBox = CurrentPageBoxes[a]

\* A pointerDown over three nested boxes of different sizes, while a later
\* one of them was selected: the earliest is now selected.
C3_Witness ==
    /\ last.op = "pointerDown"
    /\ Cardinality(Under(last.mx, last.my)) = 3
    /\ \E a \in Under(last.mx, last.my), b \in Under(last.mx, last.my) :
            /\ a < b
            /\ selectedBox = CurrentPageBoxes[a]
            /\ last.sel = CurrentPageBoxes[b].id
            /\ CurrentPageBoxes[a].width # CurrentPageBoxes[b].width
            /\ CurrentPageBoxes[a].height # CurrentPageBoxes[b].height

\* The scenario of C4: the two boxes as extracted, page 1 shown at 1000 x 800
\* pixels and scale 1.0.
C4_Scenario ==
    /\ parsedResults = ProcessedData(ScenarioResponse)
    /\ pageRect = [width |-> 1000, height |-> 800]
    /\ EffScale = Num(1)
    /\ EffCurrentPage = 1

C4_First  == ProcessedData(ScenarioResponse).pages[1].boxes[1]
C4_Second == ProcessedData(ScenarioResponse).pages[1].boxes[2]

C4_FirstOnScreen ==
    normalizeCoordinates(C4_First, Num(pageRect.width), Num(pageRect.height), EffScale)
        = [x |-> Num(100), y |-> Num(80), width |-> Num(200), height |-> Num(40)]

C4_DownAt(mx, my) == last.op = "pointerDown" /\ last.mx = mx /\ last.my = my

\* C4 (as the code has it): in the scenario the first box maps to the screen
\* rectangle {100, 80, 200, 40} and a pointerDown at (150, 90) selects it; the
\* second box maps to {100, 240, 200, 40}, so a pointerDown at (151, 250)
\* selects the second box and a pointerDown at (150, 310) hits no box and
\* clears the selection.
C4_ScenarioHits ==
    C4_Scenario =>
        /\ C4_FirstOnScreen
        /\ normalizeCoordinates(C4_Second, Num(pageRect.width), Num(pageRect.height), EffScale)
                = [x |-> Num(100), y |-> Num(240), width |-> Num(200), height |-> Num(40)]
        /\ C4_DownAt(150, 90) => selectedBox = C4_First
        /\ C4_DownAt(151, 250) => selectedBox = C4_Second
        /\ C4_DownAt(150, 310) => selectedBox = Null

\* The pointerDown at (150, 310) in the scenario, with the second box
\* selected before it: nothing is selected now.
C4_Witness ==
    /\ C4_Scenario
    /\ C4_DownAt(150, 310)
    /\ last.sel = C4_Second.id
    /\ selectedBox = Null

\* C4 as stated: the pointerDown at (150, 310) selects the second box.
C4_ScenarioAsStated ==
    C4_Scenario =>
        /\ C4_FirstOnScreen
        /\ C4_DownAt(150, 90) => selectedBox = C4_First
        /\ C4_DownAt(150, 310) => selectedBox = C4_Second
-----------------------------------------------------------------------------
(* Properties of extraction and field mapping *)

\* A mapping result has just been applied.
MappingApplied == last.op = "handleMapFieldsResult" /\ last.parsed

\* The positions of the fields of a list that reference the box id.
Referencing(fields, id) == {j \in 1..Len(fields) : fields[j].boxId = id}

\* The mapping was applied to the list that the extraction auto-created.
AppliedToExtractedFields ==
    /\ Len(last.fields) = Len(last.allBoxes)
    /\ \A i \in 1..Len(last.fields) :
            /\ last.fields[i].boxId = last.allBoxes[i].id
            /\ last.fields[i].name = Sanitize(last.allBoxes[i].text)

\* C5: after an extraction that auto-created the fields and the application
\* of a mapping result, every box id of the Box Store is the boxId of exactly
\* one field or is in the unmapped-id set, never both and never neither.
C5_MappedXorUnmapped ==
    (MappingApplied /\ AppliedToExtractedFields /\ parsedResults # Null) =>
        \A i \in 1..Len(AllBoxes(parsedResults)) :
            LET id == AllBoxes(parsedResults)[i].id
                n  == Cardinality(Referencing(variableFields, id))
                u  == \E k \in 1..Len(unmappedBoxIds) : unmappedBoxIds[k] = id
            IN  (n = 1 /\ ~u) \/ (n = 0 /\ u)

\* C6: applying the same mapping result a second time, to the field list its
\* first application produced, gives every field the boxId it had and adds
\* no further field.
C6_SecondApplicationChangesNothing ==
    (MappingApplied /\ last.again) =>
        /\ Len(variableFields) = Len(last.fields)
        /\ \A i \in 1..Len(last.fields) : variableFields[i].boxId = last.fields[i].boxId

\* C7: when the mapping operation has completed, caller included, the field
\* list holds exactly one new field for every id of unmappedBoxes that no
\* field referenced after the name matching, with that boxId, an empty value
\* and the box's sanitized text (or 'Field {boxId}') as its name, and no new
\* field for an id that some field already referenced.
C7_OneFieldPerUnmappedBox ==
    MappingApplied =>
        \A k \in 1..Len(last.result.unmappedBoxes) :
            LET id  == last.result.unmappedBoxes[k]
                b   == FindIndex([j \in 1..Len(last.allBoxes) |-> last.allBoxes[j].id = id])
                new == {j \in Referencing(variableFields, id) :
                            variableFields[j].id \notin FieldIds(last.fields)}
            IN  IF id \in ExistingBoxIds(MatchFields(last.fields, last.result.mappings))
                THEN new = {}
                ELSE /\ Cardinality(new) = 1
                     /\ \A j \in new :
                            /\ variableFields[j].value = <<>>
                            /\ variableFields[j].name =
                                    IF b # 0 THEN Sanitize(last.allBoxes[b].text)
                                    ELSE FallbackName(id)

\* The positions of the mappings whose fieldId is the name.
MappingsOf(name) ==
    {m \in 1..Len(last.result.mappings) : last.result.mappings[m].fieldId = name}

\* C8: applying a mapping result gives each field the boxId of the first
\* mapping whose fieldId equals the field's name, and leaves a field whose
\* name equals no mapping's fieldId unchanged in id, name, value and boxId.
C8_FirstMappingByName ==
    MappingApplied =>
        /\ Len(variableFields) >= Len(last.fields)
        /\ \A i \in 1..Len(last.fields) :
            LET f  == last.fields[i]
                ms == MappingsOf(f.name)
                m  == CHOOSE m \in ms : \A n \in ms : m <= n
            IN  IF ms = {}
                THEN variableFields[i] = f
                ELSE variableFields[i] =
                        [id |-> f.id, name |-> f.name, value |-> f.value,
                         boxId |-> last.result.mappings[m].boxId]

\* A mapping result with two mappings of one field's name to different boxes
\* was applied to a list that also holds a field no mapping names, which has
\* no boxId; the first field has the first mapping's box, not the second's.
C8_Witness ==
    /\ MappingApplied
    /\ \E i \in 1..Len(last.fields), j \in 1..Len(last.fields) :
            /\ Cardinality(MappingsOf(last.fields[i].name)) = 2
            /\ \E m \in MappingsOf(last.fields[i].name) :
                    variableFields[i].boxId # last.result.mappings[m].boxId
            /\ variableFields[i].boxId # last.fields[i].boxId
            /\ MappingsOf(last.fields[j].name) = {}
            /\ variableFields[j].boxId = NoBoxId

\* C9: an extraction result leaves a field list that is non-empty when the
\* result is applied exactly as it was; an empty list becomes one field per
\* extracted box, in store order, with that box's id and an empty value.
C9_ResultNeverOverwrites ==
    (last.op = "processFileResult" /\ last.parsed) =>
        IF last.before # <<>>
        THEN variableFields = last.before
        ELSE /\ Len(variableFields) = Len(AllBoxes(parsedResults))
             /\ \A i \in 1..Len(variableFields) :
                    /\ variableFields[i].boxId = AllBoxes(parsedResults)[i].id
                    /\ variableFields[i].value = <<>>

\* C10: after a mapping result has been applied, no two fields of the list
\* have the same boxId.
C10_NoSharedBox ==
    MappingApplied =>
        \A i \in 1..Len(variableFields), j \in 1..Len(variableFields) :
            (i < j /\ variableFields[i].boxId # NoBoxId)
                => variableFields[i].boxId # variableFields[j].boxId

-----------------------------------------------------------------------------
(* Properties of the Box Store *)

\* C11: in every reachable state the ids of the boxes in the Box Store are
\* pairwise distinct, whatever the shape of the extraction response.
C11_BoxIdsDistinct ==
    parsedResults # Null =>
        \A i \in 1..Len(AllBoxes(parsedResults)), j \in 1..Len(AllBoxes(parsedResults)) :
            i # j => AllBoxes(parsedResults)[i].id # AllBoxes(parsedResults)[j].id

\* C12: in every reachable state every box of the Box Store has width > 0
\* and height > 0 (the extraction and the initial stores deliver such boxes).
C12_PositiveSize ==
    parsedResults # Null =>
        \A i \in 1..Len(AllBoxes(parsedResults)) :
            /\ AllBoxes(parsedResults)[i].width[1] > 0
            /\ AllBoxes(parsedResults)[i].height[1] > 0

\* The set of box ids of a store.
BoxIdSet(results) ==
    IF results = Null THEN {}
    ELSE {AllBoxes(results)[i].id : i \in 1..Len(AllBoxes(results))}

\* C13: the set of box ids in the Box Store changes only in a step that
\* replaces the whole set: a document load, a successful extraction or a
\* restore; every other step leaves it as it was.
C13_IdSetChangesOnlyByReplacement ==
    [][BoxIdSet(parsedResults') # BoxIdSet(parsedResults) =>
            \/ last'.op \in {"fileChange", "restoreState"}
            \/ last'.op = "processFileResult" /\ last'.parsed]_vars

\* The selection names a box id that no box of the store has.
StaleSelection ==
    /\ EffSelectedBox # Null
    /\ parsedResults # Null
    /\ FindBoxById(parsedResults, EffSelectedBox.id) = Null

C19_CoordinateEdit ==
    (last.op = "coordinateChange" /\ last.selected # Null /\ last.results # Null) =>
        IF last.num.nan
        THEN /\ parsedResults = last.results
             /\ EffSelectedBox = last.selected
             /\ error = last.error
        ELSE LET before == AllBoxes(last.results)
                 after  == AllBoxes(parsedResults)
                 sel    == FindIndex([j \in 1..Len(before) |->
                                        before[j].id = last.selected.id])
             IN  /\ Len(after) = Len(before)
                 /\ \A i \in 1..Len(before) :
                        after[i] = IF i = sel
                                   THEN [before[i] EXCEPT ![last.field] = Num(last.num.n)]
                                   ELSE before[i]

-----------------------------------------------------------------------------
(* Properties of failing service calls *)

ExtractionFailed == last.op = "processFileResult" /\ ~last.parsed
MappingFailed == last.op = "handleMapFieldsResult" /\ ~last.parsed

\* C15: when an extraction call fails, the Box Store, the selection, the
\* variable-field list, the mappings and the unmapped-id set are the same
\* after the call as before it.
C15_FailedExtractionChangesNothing ==
    ExtractionFailed =>
        /\ parsedResults = last.results
        /\ selectedBox = last.selected
        /\ variableFields = last.fields
        /\ variableMappings = last.mappings
        /\ unmappedBoxIds = last.unmapped

\* C16: every extraction call and every mapping call that fails ends with a
\* non-empty error message set.
C16_FailureSetsError ==
    (ExtractionFailed \/ MappingFailed) => error # NoError

\* C17: a mapping response that parses as JSON but lacks its unmappedBoxes
\* list is not partially applied: the variable-field list, the mappings and
\* the unmapped-id set are the same after the call as before it.
C17_IncompleteNotApplied ==
    (MappingFailed /\ last.kind = "incomplete") =>
        /\ variableFields = last.fields
        /\ variableMappings = last.mappings
        /\ unmappedBoxIds = last.unmapped

\* C18: if the mapping service's response cannot be parsed as JSON, an error
\* message is set and the variable-field list is left unchanged.
C18_UnparsableReported ==
    (MappingFailed /\ last.kind = "unparsable") =>
        /\ error # NoError
        /\ variableFields = last.fields

C18_Witness ==
    /\ MappingFailed
    /\ last.kind = "unparsable"
    /\ error = "Failed to parse mapping results as JSON."
    /\ Len(variableFields) > 0

-----------------------------------------------------------------------------
(* Snapshot round trip *)

\* C20: restoring a snapshot on a freshly mounted component reproduces the
\* snapshot's box results, current page, scale, variable fields, mappings,
\* unmapped ids and show-variables flag, and once the deferred steps of the
\* restore have run, the selected box is the box of the restored store whose
\* id was saved (no selection if none was saved).
C20_SnapshotRoundTrip ==
    /\ last.op = "restoreState" =>
            /\ parsedResults = savedState.parsedResults
            /\ EffCurrentPage = savedState.currentPage
            /\ EffScale = savedState.scale
            /\ variableFields = savedState.variableFields
            /\ variableMappings = savedState.variableMappings
            /\ unmappedBoxIds = savedState.unmappedBoxIds
            /\ showVariables = savedState.showVariables
    /\ (last.op \in {"restoreSelectionTimeout", "boxesLoadedTimeout"} /\ timers = <<>>) =>
            selectedBox = IF last.id = NoBoxId \/ parsedResults = Null THEN Null
                          ELSE FindBoxById(parsedResults, last.id)

-----------------------------------------------------------------------------
(* Properties of document replacement, rendering and the drag controller *)

DocumentReplaced ==
    /\ last.op \in {"fileChange", "loadBoundingBoxData"}
    /\ last.replaced
    /\ last.op = "loadBoundingBoxData" => last.loaded /\ ~last.withFields

\* C21: after a new file is chosen, or a saved document without variable
\* fields is loaded, in place of a document that had boxes, the field list
\* holds none of the fields it held before.
C21_FieldsDestroyedWithDocument ==
    DocumentReplaced =>
        \A i \in 1..Len(variableFields) :
            \A j \in 1..Len(last.fields) : variableFields[i] # last.fields[j]

\* C22: with the show-variables flag set, every box of the current page that
\* some field references is painted in the mapped style with that field's
\* value, or [name] when the value is empty, whatever the mappings list holds;
\* and no paint instruction is for a box of another page.
C22_RenderRule ==
    LET paints == renderBoundingBoxes
        bs == CurrentPageBoxes
    IN  (parsedResults # Null /\ pageRect # Null) =>
            /\ \A k \in 1..Len(paints) : paints[k].page = EffCurrentPage
            /\ showVariables =>
                    \A i \in 1..Len(bs) :
                        Referencing(variableFields, bs[i].id) # {} =>
                            \E k \in 1..Len(paints), j \in Referencing(variableFields, bs[i].id) :
                                /\ paints[k].box = bs[i].id
                                /\ paints[k].style = "mapped"
                                /\ paints[k].label = Label(variableFields[j])

\* The last event was a pointerDown, made with no box selected and no drag
\* under way, that hit a box.
SelectedFromIdle ==
    /\ last.op = "pointerDown"
    /\ last.sel = <<>>
    /\ ~last.dragging
    /\ selectedBox # Null

\* C23: a pointerDown from Idle that hits a box selects it without starting a
\* drag, so the pointerMove that follows it moves no box; a pointerDown from
\* Idle that hits no box leaves nothing selected and no drag under way.
C23_SelectBeforeDrag ==
    [][/\ (SelectedFromIdle /\ last'.op = "pointerMove") => parsedResults' = parsedResults
       /\ (/\ last'.op = "pointerDown"
           /\ selectedBox = Null /\ ~isDragging
           /\ parsedResults # Null /\ FoundBox(last'.mx, last'.my) = Null)
              => selectedBox' = Null /\ ~isDragging']_vars

\* C24: a pointerUp or a pointerLeave ends the drag and keeps the selected box
\* and every box as the drag left them; while no drag is under way a
\* pointerMove changes no box and not the selection; and a drag starts only
\* with a pointerDown that hits a box.
C24_DragEnds ==
    [][/\ last'.op \in {"pointerUp", "pointerLeave"} =>
            /\ ~isDragging'
            /\ selectedBox' = selectedBox
            /\ parsedResults' = parsedResults
       /\ (~isDragging /\ last'.op = "pointerMove") =>
            /\ parsedResults' = parsedResults
            /\ selectedBox' = selectedBox
       /\ (~isDragging /\ isDragging') =>
            /\ last'.op = "pointerDown"
            /\ selectedBox' # Null]_vars

\* A pointerMove arrives after a drag that moved the selected box has ended.
C24_Witness ==
    /\ last.op = "pointerMove" /\ ~last.acted
    /\ ~isDragging
    /\ dragOrigin # Null /\ dragOrigin.steps > 0
    /\ selectedBox # Null
    /\ FindBoxById(parsedResults, selectedBox.id) = selectedBox
    /\ selectedBox # dragOrigin.box

-----------------------------------------------------------------------------
(* Properties of overlapping operations *)

\* The name and the box of each field, in list order.
NamesAndBoxes(fields) ==
    [i \in 1..Len(fields) |-> [name |-> fields[i].name, boxId |-> fields[i].boxId]]

\* The last of several overlapping extraction calls has resolved, and the
\* calls were made with an empty field list, so that they create fields.
OverlappingCallsResolved ==
    /\ last.op = "processFileResult"
    /\ last.overlapped
    /\ extractCalls = <<>>
    /\ last.closure = <<>>

\* C25: once the last of two overlapping extraction calls has resolved, the
\* boxes, the unmapped ids and the auto-created fields are those of the call
\* that resolved last: none of them is left over from the other call.
C25_LastResolvedWins ==
    OverlappingCallsResolved =>
        LET boxes == IF last.result.parsedResults = Null THEN <<>>
                     ELSE AllBoxes(last.result.parsedResults)
        IN  /\ parsedResults = last.result.parsedResults
            /\ unmappedBoxIds = BoxIdsOf(boxes)
            /\ NamesAndBoxes(variableFields) = NamesAndBoxes(ExtractedFields(boxes))

\* C27: isProcessing is true exactly while an operation started by processFile
\* or by printPdf is in flight.
C27_ProcessingWhileInFlight ==
    isProcessing <=> (Len(extractCalls) + printCalls > 0)

\* C26: a change made to the field list while the mapping call was in flight
\* is still there after the result is applied: every field of the list as it
\* was at that moment is in the list with its name and value, and no field
\* deleted during the flight is back.
C26_EditsSurviveMapping ==
    MappingApplied =>
        /\ \A i \in 1..Len(last.before) :
               \E j \in 1..Len(variableFields) :
                   /\ variableFields[j].id = last.before[i].id
                   /\ variableFields[j].name = last.before[i].name
                   /\ variableFields[j].value = last.before[i].value
        /\ \A j \in 1..Len(variableFields) :
               variableFields[j].id \in FieldIds(last.fields) =>
                   variableFields[j].id \in FieldIds(last.before)

-----------------------------------------------------------------------------
(* Properties of the selection *)

\* C28: when the deferred selection of selectBoxById takes effect, the page
\* on display is the page of the box it selects.
C28_SelectionOnDisplayedPage ==
    (last.op = "selectTimeout" /\ selectedBox # Null) => selectedBox.page = EffCurrentPage

\* C29: whenever a box is selected, the Box Store holds a box with the
\* selected box's id, and that box has the selected box's x, y, width and
\* height.
C29_SelectionCoherent ==
    selectedBox # Null =>
        /\ parsedResults # Null
        /\ \E i \in 1..Len(AllBoxes(parsedResults)) :
               LET box == AllBoxes(parsedResults)[i]
               IN  /\ box.id = selectedBox.id
                   /\ box.x = selectedBox.x /\ box.y = selectedBox.y
                   /\ box.width = selectedBox.width /\ box.height = selectedBox.height

====
